---- MODULE Spec2Model ----
(***************************************************************************)
(* Task manager API: GET /api/tasks and POST /api/tasks in the three       *)
(* storage variants of the route handler (in-memory list, JSON file,       *)
(* Edge Config), with the validation and filtering helpers they share.     *)
(*                                                                         *)
(* Text the code inspects character by character (title, description,      *)
(* search) is a sequence of one-character strings; text the code only      *)
(* compares or concatenates (ids, enum values, timestamps, messages) is a  *)
(* TLA+ string.  An optional value is <<>> when undefined/null and <<v>>   *)
(* when it holds v.                                                        *)
(***************************************************************************)
EXTENDS Integers, Sequences, FiniteSets, TLC

VARIABLES
    variant,        \* which route handler is deployed: "memory", "file", "edge"
    runtimeTasks,   \* in-memory variant: the module-level task list
    tasksFile,      \* file variant: what is at TASKS_FILE_PATH
    edgeConfig,     \* edge variant: what get('tasks') yields
    now,            \* the system clock, in ms
    req,            \* the request being answered
    resp,           \* the response returned for it
    pre,            \* the store as it was when the request arrived
    created,        \* the tasks returned by the POSTs answered 201, in order
    calls           \* the handler invocations in flight, when requests overlap

vars == <<variant, runtimeTasks, tasksFile, edgeConfig, now, req, resp, pre, created, calls>>

-----------------------------------------------------------------------------
(* Bounds of the model *)

MaxLen == 2          \* longest short text enumerated for validation inputs
MaxPosts == 2        \* successful creations per behaviour
ClockStart == 100    \* first clock value (three digits, like every value reached)
ClockEnd == 101      \* last clock value
MaxList == 2         \* longest task list enumerated for applyFilters
MaxCalls == 2        \* handler invocations overlapping in one behaviour

(* Program constants *)

MaxTitleLen == 200
MaxDescLen == 1000

-----------------------------------------------------------------------------
(* Optional values and JavaScript truthiness *)

Undefined == <<>>
Some(v) == <<v>>
Val(o) == o[1]

\* `x` used as a condition, x an optional character sequence
Truthy(o) == o # Undefined /\ Len(Val(o)) > 0

\* `x` used as a condition, x an optional string
TruthyStr(o) == o # Undefined /\ Val(o) # ""

-----------------------------------------------------------------------------
(* String primitives *)

Rep(c, n) == [i \in 1..n |-> c]

WhiteSpace == {" "}

\* the letters toLowerCase changes
LowerOf ==
    "A" :> "a" @@ "B" :> "b" @@ "C" :> "c" @@ "D" :> "d" @@ "E" :> "e" @@ "F" :> "f" @@ "G" :> "g" @@ "H" :> "h" @@ "I" :> "i" @@ "J" :> "j" @@ "K" :> "k" @@ "L" :> "l" @@ "M" :> "m"
    @@ "N" :> "n" @@ "O" :> "o" @@ "P" :> "p" @@ "Q" :> "q" @@ "R" :> "r" @@ "S" :> "s" @@ "T" :> "t" @@ "U" :> "u" @@ "V" :> "v" @@ "W" :> "w" @@ "X" :> "x" @@ "Y" :> "y" @@ "Z" :> "z"

ToLowerChar(c) == IF c \in DOMAIN LowerOf THEN LowerOf[c] ELSE c

toLowerCase(s) == [i \in 1..Len(s) |-> ToLowerChar(s[i])]

RECURSIVE trimStart(_)
trimStart(s) ==
    IF Len(s) = 0 \/ s[1] \notin WhiteSpace THEN s ELSE trimStart(Tail(s))

RECURSIVE trimEnd(_)
trimEnd(s) ==
    IF Len(s) = 0 \/ s[Len(s)] \notin WhiteSpace THEN s
    ELSE trimEnd(SubSeq(s, 1, Len(s) - 1))

trim(s) == trimEnd(trimStart(s))

includes(s, sub) ==
    \E i \in 0..(Len(s) - Len(sub)) : \A j \in 1..Len(sub) : s[i + j] = sub[j]

RECURSIVE join(_, _)
join(list, sep) ==
    IF Len(list) = 0 THEN ""
    ELSE IF Len(list) = 1 THEN list[1]
    ELSE list[1] \o sep \o join(Tail(list), sep)

-----------------------------------------------------------------------------
(* Enumerations *)

Priority == <<"low", "medium", "high", "urgent">>
Category == <<"work", "personal", "shopping", "health", "learning">>

ObjectValues(enum) == {enum[i] : i \in 1..Len(enum)}

-----------------------------------------------------------------------------
(* Dates *)

NaN == -1

\* new Date(t).toISOString(), for the clock values of the model (100..999 ms)
toISOString(t) == "1970-01-01T00:00:00." \o ToString(t) \o "Z"

\* the instants the date strings of the model's requests name
Instants == (ClockStart - 1)..(ClockEnd + 1)

\* new Date(s).getTime(): the time of an ISO string, NaN for anything else
DateParse(s) ==
    IF \E t \in Instants : toISOString(t) = s
    THEN CHOOSE t \in Instants : toISOString(t) = s
    ELSE NaN

isNaN(x) == x = NaN

-----------------------------------------------------------------------------
(* validateTaskRequest *)

validateTitle(body) ==
    IF ~Truthy(body.title) THEN <<"Title is required">>
    ELSE IF Len(trim(Val(body.title))) = 0 THEN <<"Title cannot be empty">>
    ELSE IF Len(Val(body.title)) > MaxTitleLen
         THEN <<"Title must be less than 200 characters">>
    ELSE <<>>

validateDescription(body) ==
    IF Truthy(body.description) /\ Len(Val(body.description)) > MaxDescLen
    THEN <<"Description must be less than 1000 characters">>
    ELSE <<>>

validatePriority(body) ==
    IF ~TruthyStr(body.priority) THEN <<"Priority is required">>
    ELSE IF Val(body.priority) \notin ObjectValues(Priority)
         THEN <<"Priority must be one of: " \o join(Priority, ", ")>>
    ELSE <<>>

validateCategory(body) ==
    IF ~TruthyStr(body.category) THEN <<"Category is required">>
    ELSE IF Val(body.category) \notin ObjectValues(Category)
         THEN <<"Category must be one of: " \o join(Category, ", ")>>
    ELSE <<>>

\* a due date check that refuses every due date that is present
validateDueDateNone(body) ==
    IF TruthyStr(body.dueDate)
    THEN <<"Due date must be a valid ISO date string">>
    ELSE <<>>

validateDueDate(body) ==
    IF TruthyStr(body.dueDate) /\ isNaN(DateParse(Val(body.dueDate)))
    THEN <<"Due date must be a valid ISO date string">>
    ELSE <<>>

\* the Edge Config handler's due date check, which also refuses past dates
validateDueDateEdge(body, t) ==
    IF ~TruthyStr(body.dueDate) THEN <<>>
    ELSE IF isNaN(DateParse(Val(body.dueDate)))
         THEN <<"Due date must be a valid ISO date string">>
    ELSE IF DateParse(Val(body.dueDate)) < t
         THEN <<"Due date cannot be in the past">>
    ELSE <<>>

validateTaskRequest(body) ==
    validateTitle(body) \o validateDescription(body) \o validatePriority(body)
        \o validateCategory(body) \o validateDueDate(body)

validateTaskRequestEdge(body, t) ==
    validateTitle(body) \o validateDescription(body) \o validatePriority(body)
        \o validateCategory(body) \o validateDueDateEdge(body, t)

-----------------------------------------------------------------------------
(* applyFilters *)

\* filters combined with OR: a task passes when any provided filter accepts it
AdmitAny(task, filters) ==
    \/ TruthyStr(filters.category) /\ task.category = Val(filters.category)
    \/ TruthyStr(filters.priority) /\ task.priority = Val(filters.priority)
    \/ filters.completed # Undefined /\ task.completed = Val(filters.completed)
    \/ Truthy(filters.search)
         /\ \/ includes(toLowerCase(task.title), toLowerCase(Val(filters.search)))
            \/ task.description # Undefined
                 /\ includes(toLowerCase(Val(task.description)),
                             toLowerCase(Val(filters.search)))
    \/ /\ ~TruthyStr(filters.category) /\ ~TruthyStr(filters.priority)
       /\ filters.completed = Undefined /\ ~Truthy(filters.search)

\* an absent description counted as a match
AdmitAbsentMatches(task, filters) ==
    IF TruthyStr(filters.category) /\ task.category # Val(filters.category) THEN FALSE
    ELSE IF TruthyStr(filters.priority) /\ task.priority # Val(filters.priority) THEN FALSE
    ELSE IF filters.completed # Undefined /\ task.completed # Val(filters.completed) THEN FALSE
    ELSE IF Truthy(filters.search)
         THEN LET searchLower == toLowerCase(Val(filters.search))
              IN  \/ includes(toLowerCase(task.title), searchLower)
                  \/ task.description = Undefined
                  \/ includes(toLowerCase(Val(task.description)), searchLower)
    ELSE TRUE

Admit(task, filters) ==
    IF TruthyStr(filters.category) /\ task.category # Val(filters.category) THEN FALSE
    ELSE IF TruthyStr(filters.priority) /\ task.priority # Val(filters.priority) THEN FALSE
    ELSE IF filters.completed # Undefined /\ task.completed # Val(filters.completed) THEN FALSE
    ELSE IF Truthy(filters.search)
         THEN LET searchLower == toLowerCase(Val(filters.search))
                  titleMatch == includes(toLowerCase(task.title), searchLower)
                  descriptionMatch ==
                      IF task.description # Undefined
                      THEN includes(toLowerCase(Val(task.description)), searchLower)
                      ELSE FALSE
              IN  titleMatch \/ descriptionMatch
    ELSE TRUE

applyFilters(tasks, filters) == SelectSeq(tasks, LAMBDA task : Admit(task, filters))

-----------------------------------------------------------------------------
(* generateId and the new task object *)

\* Date.now().toString() + Math.random().toString(36).substring(2, 9)
generateId(t, rnd) == ToString(t) \o rnd

\* the task literal; t1, t2, t3 are the clock as read by generateId and by the
\* two `new Date()` calls
NewTask(body, t1, rnd, t2, t3) ==
    [ id          |-> generateId(t1, rnd),
      title       |-> trim(Val(body.title)),
      description |-> IF body.description # Undefined
                         /\ Len(trim(Val(body.description))) > 0
                      THEN Some(trim(Val(body.description)))
                      ELSE Undefined,
      completed   |-> FALSE,
      priority    |-> Val(body.priority),
      category    |-> Val(body.category),
      createdAt   |-> toISOString(t2),
      updatedAt   |-> toISOString(t3),
      dueDate     |-> IF TruthyStr(body.dueDate) THEN body.dueDate ELSE Undefined ]

\* a push that puts the task in front
pushFront(tasks, newTask) == <<newTask>> \o tasks

\* a push that loses the task
pushDropped(tasks, newTask) == tasks

\* tasks.push(newTask)
push(tasks, newTask) == Append(tasks, newTask)

-----------------------------------------------------------------------------
(* Responses *)

NoRequest == [op |-> "none"]
NoResponse == [op |-> "none", status |-> 0, success |-> FALSE, data |-> <<>>,
               message |-> Undefined, error |-> Undefined]

\* NextResponse.json(response) of GET: status 200
GetOk(filteredTasks, total) ==
    [ op      |-> "GET",
      status  |-> 200,
      success |-> TRUE,
      data    |-> filteredTasks,
      message |-> Some("Found " \o ToString(Len(filteredTasks)) \o " tasks"
                       \o (IF Len(filteredTasks) # total
                           THEN " (filtered from " \o ToString(total) \o " total)"
                           ELSE "")),
      error   |-> Undefined ]

\* the catch branch of GET
GetFailed ==
    [ op |-> "GET", status |-> 500, success |-> FALSE, data |-> <<>>,
      message |-> Undefined, error |-> Some("Failed to fetch tasks") ]

\* a validation branch that reports the first violation only
PostInvalidFirstOnly(validationErrors) ==
    [ op |-> "POST", status |-> 400, success |-> FALSE, data |-> Undefined,
      message |-> Undefined,
      error |-> Some("Validation failed: " \o validationErrors[1]) ]

\* the validation branch of POST; data is null
PostInvalid(validationErrors) ==
    [ op |-> "POST", status |-> 400, success |-> FALSE, data |-> Undefined,
      message |-> Undefined,
      error |-> Some("Validation failed: " \o join(validationErrors, ", ")) ]

PostCreated(newTask, note) ==
    [ op |-> "POST", status |-> 201, success |-> TRUE, data |-> Some(newTask),
      message |-> Some(note), error |-> Undefined ]

\* the catch branch of POST
PostFailed ==
    [ op |-> "POST", status |-> 500, success |-> FALSE, data |-> Undefined,
      message |-> Undefined, error |-> Some("Failed to create task") ]

-----------------------------------------------------------------------------
(* Query parameters to TaskFilters *)

ParseFilters(q) ==
    [ category  |-> IF TruthyStr(q.category) THEN q.category ELSE Undefined,
      priority  |-> IF TruthyStr(q.priority) THEN q.priority ELSE Undefined,
      completed |-> IF q.completed = Some("true") THEN Some(TRUE)
                    ELSE IF q.completed = Some("false") THEN Some(FALSE)
                    ELSE Undefined,
      search    |-> IF Truthy(q.search) THEN q.search ELSE Undefined ]

-----------------------------------------------------------------------------
(* Stores *)

getFallbackTasks ==
    << [ id |-> "fallback-1",
         title |-> <<"C","o","n","f","i","g","u","r","e"," ","E","d","g","e"," ","C","o","n","f","i","g">>,
         description |-> Some(<<"S","e","t"," ","u","p"," ","E","d","g","e"," ","C","o","n","f","i","g"," ","i","n"," ","V","e","r","c","e","l"," ","d","a","s","h","b","o","a","r","d"," ","w","i","t","h"," ","p","r","o","p","e","r"," ","J","S","O","N"," ","s","t","r","u","c","t","u","r","e">>),
         completed |-> FALSE, priority |-> "high", category |-> "learning",
         createdAt |-> "2024-01-20T10:00:00Z", updatedAt |-> "2024-01-20T10:00:00Z",
         dueDate |-> Some("2024-01-21T23:59:59Z") ],
       [ id |-> "fallback-2",
         title |-> <<"T","e","s","t"," ","A","P","I"," ","E","n","d","p","o","i","n","t","s">>,
         description |-> Some(<<"V","e","r","i","f","y"," ","a","l","l"," ","C","R","U","D"," ","o","p","e","r","a","t","i","o","n","s"," ","w","o","r","k"," ","c","o","r","r","e","c","t","l","y"," ","w","i","t","h"," ","T","y","p","e","S","c","r","i","p","t">>),
         completed |-> FALSE, priority |-> "medium", category |-> "learning",
         createdAt |-> "2024-01-20T09:00:00Z", updatedAt |-> "2024-01-20T09:00:00Z",
         dueDate |-> Undefined ],
       [ id |-> "fallback-3",
         title |-> <<"D","e","p","l","o","y"," ","t","o"," ","P","r","o","d","u","c","t","i","o","n">>,
         description |-> Some(<<"C","o","m","p","l","e","t","e"," ","d","e","p","l","o","y","m","e","n","t"," ","s","e","t","u","p"," ","a","n","d"," ","t","e","s","t"," ","l","i","v","e"," ","A","P","I">>),
         completed |-> TRUE, priority |-> "high", category |-> "learning",
         createdAt |-> "2024-01-19T15:00:00Z", updatedAt |-> "2024-01-20T12:00:00Z",
         dueDate |-> Undefined ] >>

\* a stored task list other than the empty one (the data file is not part of
\* the sources)
SampleTasks ==
    << [ id |-> "1", title |-> <<"B","a">>, description |-> Some(<<"a","b">>),
         completed |-> TRUE, priority |-> "high", category |-> "work",
         createdAt |-> "2024-01-15T10:00:00Z", updatedAt |-> "2024-01-16T10:00:00Z",
         dueDate |-> Undefined ] >>

\* tasksData: what the import of the data file gives the in-memory variant
tasksData == {<<>>, SampleTasks}

\* what can be at TASKS_FILE_PATH: nothing, text that is not JSON, JSON that is
\* not an array, a JSON array of tasks
FileStates ==
    { [kind |-> "missing", tasks |-> <<>>],
      [kind |-> "malformed", tasks |-> <<>>],
      [kind |-> "object", tasks |-> <<>>],
      [kind |-> "array", tasks |-> SampleTasks] }

\* JSON.stringify(tasks) written over the file
JSONstringify(tasks) == [kind |-> "array", tasks |-> tasks]

\* a write that failed after the file was opened for writing
PartialFile == [kind |-> "malformed", tasks |-> <<>>]

\* the value readTasksFromFile resolves to: [] when readFile or JSON.parse
\* throws, the parsed value otherwise
readTasksFromFile(file) ==
    IF file.kind \in {"missing", "malformed"}
    THEN [isArray |-> TRUE, tasks |-> <<>>]
    ELSE [isArray |-> file.kind = "array", tasks |-> file.tasks]

\* what get('tasks') can do: throw, resolve to something that is neither an
\* array nor an object with a tasks key ("scalar": undefined, a string, {}),
\* to {tasks: null}, to {tasks: <not an array>}, to {tasks: [...]}, or to an
\* array
EdgeStates ==
    { [kind |-> "throws", tasks |-> <<>>],
      [kind |-> "scalar", tasks |-> <<>>],
      [kind |-> "objectTasksNull", tasks |-> <<>>],
      [kind |-> "objectTasksNotArray", tasks |-> <<>>],
      [kind |-> "objectTasks", tasks |-> SampleTasks],
      [kind |-> "array", tasks |-> SampleTasks] }

\* a load without the fallback: an empty list instead
LoadEdgeTasksNoFallback(edge) ==
    IF edge.kind \in {"objectTasks", "array"} THEN [isArray |-> TRUE, tasks |-> edge.tasks]
    ELSE [isArray |-> edge.kind # "objectTasksNotArray", tasks |-> <<>>]

\* the value of `tasks` after the inner try/catch of the Edge Config GET
LoadEdgeTasks(edge) ==
    IF edge.kind = "throws" THEN [isArray |-> TRUE, tasks |-> getFallbackTasks]
    ELSE IF edge.kind \in {"objectTasks", "objectTasksNull", "objectTasksNotArray"}
         THEN IF edge.kind = "objectTasksNull" THEN [isArray |-> TRUE, tasks |-> <<>>]
              ELSE [isArray |-> edge.kind = "objectTasks", tasks |-> edge.tasks]
    ELSE IF edge.kind = "array" THEN [isArray |-> TRUE, tasks |-> edge.tasks]
    ELSE [isArray |-> TRUE, tasks |-> getFallbackTasks]

-----------------------------------------------------------------------------
(* Requests the handlers are driven with *)

Body(title, description, priority, category, dueDate) ==
    [ title |-> title, description |-> description, priority |-> priority,
      category |-> category, dueDate |-> dueDate ]

PostBodies ==
    { Body(Some(<<" ","A","b">>), Undefined, Some("high"), Some("work"), Undefined),
      Body(Some(<<"a">>), Some(<<"b"," ">>), Some("low"), Some("personal"),
           Some(toISOString(ClockStart))),
      Body(Undefined, Undefined, Some("critical"), Some("work"), Undefined),
      Body(Some(<<"a">>), Undefined, Some("low"), Some("work"), Some("not-a-date")),
      Body(Some(<<" ">>), Some(<<>>), Undefined, Some(""), Some("")) }

Query(category, priority, completed, search) ==
    [ category |-> category, priority |-> priority, completed |-> completed,
      search |-> search ]

Queries ==
    { Query(Undefined, Undefined, Undefined, Undefined),
      Query(Undefined, Undefined, Undefined, Some(<<"A","b">>)),
      Query(Undefined, Undefined, Undefined, Some(<<"b">>)),
      Query(Undefined, Undefined, Undefined, Some(<<>>)),
      Query(Some("work"), Undefined, Some("false"), Undefined),
      Query(Some("learning"), Some("high"), Some("true"), Some(<<"a","p","i">>)),
      Query(Some(""), Some("low"), Some("yes"), Undefined) }

\* the values Math.random().toString(36).substring(2, 9) is drawn from
RandomSuffixes == {"k3x9q2a", "7bm1c0z"}

\* the clock read again: it has not moved, or has moved on by a millisecond
Later(t) == {u \in {t, t + 1} : u <= ClockEnd}

-----------------------------------------------------------------------------
(* Handler invocations *)

Calls == 1..MaxCalls

\* an invocation that has not started: op and pc say which handler runs and
\* where it stands, the other fields are its local variables and its response
IdleCall ==
    [ op |-> "none", pc |-> "idle",
      filters |-> Query(Undefined, Undefined, Undefined, Undefined),
      newTask |-> <<>>, currentTasks |-> <<>>,
      seen |-> {}, wrote |-> FALSE, overlapped |-> FALSE, resp |-> NoResponse ]

NoCalls == [c \in Calls |-> IdleCall]

-----------------------------------------------------------------------------
(* In-memory variant *)

GETMemory(q) ==
    /\ variant = "memory"
    /\ LET filters == ParseFilters(q)
           filteredTasks == applyFilters(runtimeTasks, filters)
       IN  resp' = GetOk(filteredTasks, Len(runtimeTasks))
    /\ req' = [op |-> "GET", query |-> q]
    /\ pre' = runtimeTasks
    /\ UNCHANGED <<calls, variant, runtimeTasks, tasksFile, edgeConfig, now, created>>

\* request.json() rejects: the catch branch answers
POSTUnparsable ==
    /\ req' = [op |-> "POST", parsed |-> FALSE]
    /\ resp' = PostFailed
    /\ pre' = CASE variant = "memory" -> runtimeTasks
                [] variant = "file" -> tasksFile
                [] OTHER -> edgeConfig
    /\ UNCHANGED <<calls, variant, runtimeTasks, tasksFile, edgeConfig, now, created>>

POSTMemory(body, rnd) ==
    /\ variant = "memory"
    /\ req' = [op |-> "POST", parsed |-> TRUE, body |-> body]
    /\ pre' = runtimeTasks
    /\ LET validationErrors == validateTaskRequest(body)
       IN  IF Len(validationErrors) > 0
           THEN /\ resp' = PostInvalid(validationErrors)
                /\ UNCHANGED <<runtimeTasks, now, created>>
           ELSE /\ Len(created) < MaxPosts
                /\ \E t1 \in Later(now) : \E t2 \in Later(t1) : \E t3 \in Later(t2) :
                     LET newTask == NewTask(body, t1, rnd, t2, t3)
                     IN  /\ runtimeTasks' = push(runtimeTasks, newTask)
                         /\ resp' = PostCreated(newTask,
                                "Task created successfully (stored in memory - persists until server restart)")
                         /\ created' = Append(created, newTask)
                         /\ now' = t3
    /\ UNCHANGED <<calls, variant, tasksFile, edgeConfig>>

-----------------------------------------------------------------------------
(* File variant *)

GETFile(q) ==
    /\ variant = "file"
    /\ LET allTasks == readTasksFromFile(tasksFile)
           filters == ParseFilters(q)
       IN  IF allTasks.isArray
           THEN resp' = GetOk(applyFilters(allTasks.tasks, filters), Len(allTasks.tasks))
           ELSE resp' = GetFailed
    /\ req' = [op |-> "GET", query |-> q]
    /\ pre' = tasksFile
    /\ UNCHANGED <<calls, variant, runtimeTasks, tasksFile, edgeConfig, now, created>>

\* how fs.writeFile ends: it resolves, it rejects before the file is touched,
\* or it rejects after the file was truncated for writing
WriteOutcomes == {"written", "rejectedUntouched", "rejectedTruncated"}

POSTFile(body, rnd, outcome) ==
    /\ variant = "file"
    /\ req' = [op |-> "POST", parsed |-> TRUE, body |-> body]
    /\ pre' = tasksFile
    /\ LET validationErrors == validateTaskRequest(body)
       IN  IF Len(validationErrors) > 0
           THEN /\ resp' = PostInvalid(validationErrors)
                /\ UNCHANGED <<tasksFile, now, created>>
           ELSE /\ Len(created) < MaxPosts
                /\ \E t1 \in Later(now) : \E t2 \in Later(t1) : \E t3 \in Later(t2) :
                     LET newTask == NewTask(body, t1, rnd, t2, t3)
                         currentTasks == readTasksFromFile(tasksFile)
                     IN  /\ now' = t3
                         /\ IF ~currentTasks.isArray
                            THEN \* currentTasks.push is not a function
                                 /\ resp' = PostFailed
                                 /\ UNCHANGED <<tasksFile, created>>
                            ELSE IF outcome = "written"
                            THEN /\ tasksFile' = JSONstringify(push(currentTasks.tasks, newTask))
                                 /\ resp' = PostCreated(newTask,
                                        "Task created successfully and saved to file")
                                 /\ created' = Append(created, newTask)
                            ELSE /\ tasksFile' = IF outcome = "rejectedTruncated"
                                                 THEN PartialFile ELSE tasksFile
                                 /\ resp' = PostFailed
                                 /\ UNCHANGED created
    /\ UNCHANGED <<calls, variant, runtimeTasks, edgeConfig>>

-----------------------------------------------------------------------------
(* Edge Config variant *)

GETEdge(q) ==
    /\ variant = "edge"
    /\ LET tasks == LoadEdgeTasks(edgeConfig)
           filters == ParseFilters(q)
       IN  IF tasks.isArray
           THEN resp' = GetOk(applyFilters(tasks.tasks, filters), Len(tasks.tasks))
           ELSE resp' = GetFailed
    /\ req' = [op |-> "GET", query |-> q]
    /\ pre' = edgeConfig
    /\ UNCHANGED <<calls, variant, runtimeTasks, tasksFile, edgeConfig, now, created>>

POSTEdge(body, rnd) ==
    /\ variant = "edge"
    /\ pre' = edgeConfig
    /\ \E t0 \in Later(now) :
         LET validationErrors == validateTaskRequestEdge(body, t0)
         IN  /\ req' = [op |-> "POST", parsed |-> TRUE, body |-> body, at |-> t0]
             /\ IF Len(validationErrors) > 0
                THEN /\ resp' = PostInvalid(validationErrors)
                     /\ now' = t0
                     /\ UNCHANGED created
                ELSE /\ Len(created) < MaxPosts
                     /\ \E t1 \in Later(t0) : \E t2 \in Later(t1) : \E t3 \in Later(t2) :
                          LET newTask == NewTask(body, t1, rnd, t2, t3)
                          IN  /\ resp' = PostCreated(newTask,
                                     "Task created successfully (Note: This is a simulation - real persistence requires Edge Config update via dashboard)")
                              /\ created' = Append(created, newTask)
                              /\ now' = t3
    /\ UNCHANGED <<calls, variant, runtimeTasks, tasksFile, edgeConfig>>

-----------------------------------------------------------------------------
(* The deployed service *)

Init ==
    /\ variant \in {"memory", "file", "edge"}
    /\ runtimeTasks \in (IF variant = "memory" THEN tasksData ELSE {<<>>})
    /\ tasksFile \in (IF variant = "file" THEN FileStates
                      ELSE {[kind |-> "missing", tasks |-> <<>>]})
    /\ edgeConfig \in (IF variant = "edge" THEN EdgeStates
                       ELSE {[kind |-> "throws", tasks |-> <<>>]})
    /\ now = ClockStart
    /\ req = NoRequest
    /\ resp = NoResponse
    /\ pre = <<>>
    /\ created = <<>>
    /\ calls = NoCalls

Next ==
    \/ \E q \in Queries : GETMemory(q)
    \/ \E body \in PostBodies : \E rnd \in RandomSuffixes : POSTMemory(body, rnd)
    \/ \E q \in Queries : GETFile(q)
    \/ \E body \in PostBodies : \E rnd \in RandomSuffixes : \E outcome \in WriteOutcomes :
         POSTFile(body, rnd, outcome)
    \/ \E q \in Queries : GETEdge(q)
    \/ \E body \in PostBodies : \E rnd \in RandomSuffixes : POSTEdge(body, rnd)
    \/ POSTUnparsable

Spec == Init /\ [][Next]_vars

-----------------------------------------------------------------------------
(* validateTaskRequest on its own *)

ShortTexts == UNION {[1..n -> {"a", " "}] : n \in 0..MaxLen}

ValidationTitles ==
    {Undefined} \cup {Some(t) : t \in ShortTexts}
        \cup { Some(Rep("a", MaxTitleLen)),
               Some(Rep("a", MaxTitleLen + 1)),
               Some(<<" ">> \o Rep("a", MaxTitleLen)),
               Some(<<" ">> \o Rep("a", MaxTitleLen + 1)) }

ValidationDescriptions ==
    { Undefined, Some(<<>>), Some(<<"a", " ">>),
      Some(Rep("a", MaxDescLen)),
      Some(Rep("a", MaxDescLen + 1)),
      Some(<<" ">> \o Rep("a", MaxDescLen)) }

ValidationBodies ==
    { Body(title, description, priority, category, dueDate) :
        title \in ValidationTitles,
        description \in ValidationDescriptions,
        priority \in {Undefined, Some(""), Some("urgent"), Some("critical")},
        category \in {Undefined, Some("health"), Some("Work")},
        dueDate \in {Undefined, Some(""), Some(toISOString(ClockStart - 1)),
                     Some("not-a-date")} }

InitValidate ==
    /\ variant = "memory"
    /\ runtimeTasks = <<>>
    /\ tasksFile = [kind |-> "missing", tasks |-> <<>>]
    /\ edgeConfig = [kind |-> "throws", tasks |-> <<>>]
    /\ now = ClockStart
    /\ req \in {[op |-> "validateTaskRequest", body |-> body] : body \in ValidationBodies}
    /\ resp = NoResponse
    /\ pre = <<>>
    /\ created = <<>>
    /\ calls = NoCalls

Validate ==
    /\ req.op = "validateTaskRequest"
    /\ resp = NoResponse
    /\ resp' = [op |-> "validateTaskRequest", errors |-> validateTaskRequest(req.body)]
    /\ UNCHANGED <<calls, variant, runtimeTasks, tasksFile, edgeConfig, now, req, pre, created>>

SpecValidate == InitValidate /\ [][Validate]_vars

-----------------------------------------------------------------------------
(* applyFilters on its own *)

FilterTask(id, title, description, completed, priority, category) ==
    [ id |-> id, title |-> title, description |-> description,
      completed |-> completed, priority |-> priority, category |-> category,
      createdAt |-> toISOString(ClockStart), updatedAt |-> toISOString(ClockStart),
      dueDate |-> Undefined ]

FilterTasks ==
    { FilterTask("t1", <<"A","b">>, Undefined, FALSE, "high", "work"),
      FilterTask("t2", <<"b">>, Some(<<"a">>), TRUE, "high", "work"),
      FilterTask("t3", <<"c">>, Undefined, FALSE, "low", "personal"),
      FilterTask("t4", <<"a">>, Some(<<"B","c">>), TRUE, "low", "work") }

TaskLists == UNION {[1..n -> FilterTasks] : n \in 0..MaxList}

FilterSpecs ==
    { Query(category, priority, completed, search) :
        category \in {Undefined, Some("work"), Some("personal")},
        priority \in {Undefined, Some("high")},
        completed \in {Undefined, Some(TRUE), Some(FALSE)},
        search \in {Undefined, Some(<<>>), Some(<<"a">>), Some(<<"B">>),
                    Some(<<"a","B">>), Some(<<"b","c">>)} }

InitFilter ==
    /\ variant = "memory"
    /\ runtimeTasks = <<>>
    /\ tasksFile = [kind |-> "missing", tasks |-> <<>>]
    /\ edgeConfig = [kind |-> "throws", tasks |-> <<>>]
    /\ now = ClockStart
    /\ req \in {[op |-> "applyFilters", tasks |-> tasks, filters |-> filters] :
                   tasks \in TaskLists, filters \in FilterSpecs}
    /\ resp = NoResponse
    /\ pre = <<>>
    /\ created = <<>>
    /\ calls = NoCalls

Filter ==
    /\ req.op = "applyFilters"
    /\ resp = NoResponse
    /\ resp' = [op |-> "applyFilters", data |-> applyFilters(req.tasks, req.filters)]
    /\ UNCHANGED <<calls, variant, runtimeTasks, tasksFile, edgeConfig, now, req, pre, created>>

SpecFilter == InitFilter /\ [][Filter]_vars

-----------------------------------------------------------------------------
(* Overlapping requests: the handlers of the in-memory and file variants,     *)
(* one step per stretch of code between two awaits.  The runtime runs each    *)
(* stretch to its end before another handler continues; the file system       *)
(* reads and writes in between.                                               *)

ConcurrentBodies ==
    { Body(Some(<<" ","A","b">>), Undefined, Some("high"), Some("work"), Undefined),
      Body(Undefined, Undefined, Some("critical"), Some("work"), Undefined) }

ConcurrentQueries ==
    { Query(Undefined, Undefined, Undefined, Undefined),
      Query(Undefined, Undefined, Undefined, Some(<<"A","b">>)) }

\* invocations are numbered in their order of arrival
Arrives(c) ==
    /\ variant \in {"memory", "file"}
    /\ calls[c].pc = "idle"
    /\ \A d \in 1..(c - 1) : calls[d].pc # "idle"

\* GET of the in-memory variant has no await: it runs from arrival to response
GETMemoryRuns(c, q) ==
    /\ variant = "memory"
    /\ Arrives(c)
    /\ LET filters == ParseFilters(q)
           filteredTasks == applyFilters(runtimeTasks, filters)
       IN  calls' = [calls EXCEPT ![c] =
                        [ IdleCall EXCEPT !.op = "GET", !.pc = "done",
                                          !.filters = filters,
                                          !.resp = GetOk(filteredTasks, Len(runtimeTasks)) ]]
    /\ UNCHANGED <<variant, runtimeTasks, tasksFile, edgeConfig, now, req, resp, pre, created>>

\* POST up to `await request.json()`
POSTBegins(c) ==
    /\ Arrives(c)
    /\ calls' = [calls EXCEPT ![c] = [IdleCall EXCEPT !.op = "POST", !.pc = "json"]]
    /\ UNCHANGED <<variant, runtimeTasks, tasksFile, edgeConfig, now, req, resp, pre, created>>

\* request.json() rejects: the catch branch answers
POSTJsonRejects(c) ==
    /\ calls[c].op = "POST" /\ calls[c].pc = "json"
    /\ calls' = [calls EXCEPT ![c].pc = "done", ![c].resp = PostFailed]
    /\ UNCHANGED <<variant, runtimeTasks, tasksFile, edgeConfig, now, req, resp, pre, created>>

\* POST of the in-memory variant from the resolved body to the response
POSTMemoryResumes(c, body, rnd) ==
    /\ variant = "memory"
    /\ calls[c].op = "POST" /\ calls[c].pc = "json"
    /\ LET validationErrors == validateTaskRequest(body)
       IN  IF Len(validationErrors) > 0
           THEN /\ calls' = [calls EXCEPT ![c].pc = "done",
                                          ![c].resp = PostInvalid(validationErrors)]
                /\ UNCHANGED <<runtimeTasks, now, created>>
           ELSE \E t1 \in Later(now) : \E t2 \in Later(t1) : \E t3 \in Later(t2) :
                  LET newTask == NewTask(body, t1, rnd, t2, t3)
                  IN  /\ runtimeTasks' = push(runtimeTasks, newTask)
                      /\ calls' = [calls EXCEPT
                             ![c].pc = "done",
                             ![c].newTask = newTask,
                             ![c].resp = PostCreated(newTask,
                                 "Task created successfully (stored in memory - persists until server restart)")]
                      /\ created' = Append(created, newTask)
                      /\ now' = t3
    /\ UNCHANGED <<variant, tasksFile, edgeConfig, req, resp, pre>>

\* GET of the file variant up to `await readTasksFromFile()`; filters is what
\* the query of the request gives when it is parsed after the read
GETFileBegins(c, q) ==
    /\ variant = "file"
    /\ Arrives(c)
    /\ calls' = [calls EXCEPT ![c] =
                    [IdleCall EXCEPT !.op = "GET", !.pc = "reading",
                                     !.filters = ParseFilters(q)]]
    /\ UNCHANGED <<variant, runtimeTasks, tasksFile, edgeConfig, now, req, resp, pre, created>>

\* the file is read and GET runs to its response
GETFileResumes(c) ==
    /\ variant = "file"
    /\ calls[c].op = "GET" /\ calls[c].pc = "reading"
    /\ LET allTasks == readTasksFromFile(tasksFile)
       IN  calls' = [calls EXCEPT
               ![c].pc = "done",
               ![c].resp = IF allTasks.isArray
                           THEN GetOk(applyFilters(allTasks.tasks, calls[c].filters),
                                      Len(allTasks.tasks))
                           ELSE GetFailed]
    /\ UNCHANGED <<variant, runtimeTasks, tasksFile, edgeConfig, now, req, resp, pre, created>>

\* POST of the file variant from the resolved body to `await readTasksFromFile()`
POSTFileResumes(c, body, rnd) ==
    /\ variant = "file"
    /\ calls[c].op = "POST" /\ calls[c].pc = "json"
    /\ LET validationErrors == validateTaskRequest(body)
       IN  IF Len(validationErrors) > 0
           THEN /\ calls' = [calls EXCEPT ![c].pc = "done",
                                          ![c].resp = PostInvalid(validationErrors)]
                /\ UNCHANGED now
           ELSE \E t1 \in Later(now) : \E t2 \in Later(t1) : \E t3 \in Later(t2) :
                  /\ calls' = [calls EXCEPT ![c].pc = "reading",
                                            ![c].newTask = NewTask(body, t1, rnd, t2, t3)]
                  /\ now' = t3
    /\ UNCHANGED <<variant, runtimeTasks, tasksFile, edgeConfig, req, resp, pre, created>>

\* a write that adds the last task of the list to what the file holds
writeTasksToFileAppending(file, tasks) ==
    IF file.kind = "array"
    THEN JSONstringify(Append(file.tasks, tasks[Len(tasks)]))
    ELSE JSONstringify(tasks)

\* what the file holds once fs.writeFile(TASKS_FILE_PATH, JSON.stringify(tasks))
\* has resolved: the whole file is replaced
writeTasksToFile(file, tasks) == JSONstringify(tasks)

\* the file is read; POST pushes its task onto the list it got and calls
\* writeTasksToFile.  seen: the invocations whose write had reached the file
\* when this one read it; overlapped: another fs.writeFile is under way
POSTFileReads(c) ==
    /\ variant = "file"
    /\ calls[c].op = "POST" /\ calls[c].pc = "reading"
    /\ LET currentTasks == readTasksFromFile(tasksFile)
           writing == {d \in Calls \ {c} : calls[d].pc = "writing"}
       IN  IF ~currentTasks.isArray
           THEN \* currentTasks.push is not a function
                calls' = [calls EXCEPT ![c].pc = "done", ![c].resp = PostFailed]
           ELSE calls' = [d \in Calls |->
                    IF d = c
                    THEN [ calls[c] EXCEPT
                             !.pc = "writing",
                             !.currentTasks = push(currentTasks.tasks, calls[c].newTask),
                             !.seen = {e \in Calls : calls[e].wrote},
                             !.overlapped = writing # {} ]
                    ELSE IF d \in writing THEN [calls[d] EXCEPT !.overlapped = TRUE]
                    ELSE calls[d]]
    /\ UNCHANGED <<variant, runtimeTasks, tasksFile, edgeConfig, now, req, resp, pre, created>>

\* how fs.writeFile ends when requests overlap: as for one request, or, with
\* another fs.writeFile to the same path under way, resolved with the bytes of
\* the two writes mixed in the file
OverlapOutcomes == WriteOutcomes \cup {"interleaved"}

\* fs.writeFile ends and POST runs to its response
POSTFileSettles(c, outcome) ==
    /\ variant = "file"
    /\ calls[c].op = "POST" /\ calls[c].pc = "writing"
    /\ outcome = "interleaved" => calls[c].overlapped
    /\ IF outcome \in {"written", "interleaved"}
       THEN /\ tasksFile' = IF outcome = "written"
                            THEN writeTasksToFile(tasksFile, calls[c].currentTasks)
                            ELSE PartialFile
            /\ calls' = [calls EXCEPT
                   ![c].pc = "done",
                   ![c].wrote = TRUE,
                   ![c].resp = PostCreated(calls[c].newTask,
                                   "Task created successfully and saved to file")]
            /\ created' = Append(created, calls[c].newTask)
       ELSE /\ tasksFile' = IF outcome = "rejectedTruncated" THEN PartialFile ELSE tasksFile
            /\ calls' = [calls EXCEPT ![c].pc = "done",
                                      ![c].wrote = (outcome = "rejectedTruncated"),
                                      ![c].resp = PostFailed]
            /\ UNCHANGED created
    /\ UNCHANGED <<variant, runtimeTasks, edgeConfig, now, req, resp, pre>>

\* pre is the store the service starts with
InitConcurrent ==
    /\ variant \in {"memory", "file"}
    /\ runtimeTasks \in (IF variant = "memory" THEN tasksData ELSE {<<>>})
    /\ tasksFile \in (IF variant = "file" THEN FileStates
                      ELSE {[kind |-> "missing", tasks |-> <<>>]})
    /\ edgeConfig = [kind |-> "throws", tasks |-> <<>>]
    /\ now = ClockStart
    /\ req = NoRequest
    /\ resp = NoResponse
    /\ pre = (IF variant = "memory" THEN runtimeTasks ELSE tasksFile)
    /\ created = <<>>
    /\ calls = NoCalls

NextConcurrent ==
    \E c \in Calls :
        \/ \E q \in ConcurrentQueries : GETMemoryRuns(c, q)
        \/ POSTBegins(c)
        \/ POSTJsonRejects(c)
        \/ \E body \in ConcurrentBodies : \E rnd \in RandomSuffixes :
             POSTMemoryResumes(c, body, rnd)
        \/ \E q \in ConcurrentQueries : GETFileBegins(c, q)
        \/ GETFileResumes(c)
        \/ \E body \in ConcurrentBodies : \E rnd \in RandomSuffixes :
             POSTFileResumes(c, body, rnd)
        \/ POSTFileReads(c)
        \/ \E outcome \in OverlapOutcomes : POSTFileSettles(c, outcome)

SpecConcurrent == InitConcurrent /\ [][NextConcurrent]_vars

-----------------------------------------------------------------------------
(* What the claims speak of *)

\* the deployed variant's store as it is, and as the handlers read it
CurrentStore ==
    CASE variant = "memory" -> runtimeTasks
      [] variant = "file" -> tasksFile
      [] OTHER -> edgeConfig

TasksOf(store) ==
    CASE variant = "memory" -> store
      [] variant = "file" -> readTasksFromFile(store).tasks
      [] OTHER -> LoadEdgeTasks(store).tasks

Count(x, list) == Cardinality({k \in 1..Len(list) : list[k] = x})

\* the text s occurs, as it is written, in the title or description of task
OccursIn(s, task) ==
    \/ includes(task.title, s)
    \/ task.description # Undefined /\ includes(Val(task.description), s)

\* s occurs in no stored task other than t
OnlyIn(s, t, tasks) ==
    LET hits == {j \in 1..Len(tasks) : OccursIn(s, tasks[j])}
    IN  Cardinality(hits) <= 1 /\ \A j \in hits : tasks[j] = t

PostAppended ==
    (resp.op = "POST" /\ resp.status = 201)
        => TasksOf(CurrentStore) = Append(TasksOf(pre), Val(resp.data))

RoundTrip ==
    (req.op = "GET" /\ req.query.search # Undefined)
        => \A i \in 1..Len(created) :
              ( /\ includes(created[i].title, Val(req.query.search))
                /\ OnlyIn(Val(req.query.search), created[i], TasksOf(CurrentStore)) )
              => resp.status = 200 /\ Count(created[i], resp.data) = 1

\* C1: every POST answered 201 has appended the new task to the store, and a
\* later GET whose search is a substring of its title found in no other stored
\* task returns it exactly once.
C1_Original == PostAppended /\ RoundTrip

\* C1 as amended: a POST answered 201 has appended the new task to the list or
\* file it stores to (in-memory and file variants), and in the in-memory variant
\* a later GET whose search is a substring of its title found in no other
\* stored task returns it exactly once.
C1_Amended ==
    /\ variant \in {"memory", "file"} => PostAppended
    /\ variant = "memory" => RoundTrip

C1_Witness ==
    /\ variant = "memory"
    /\ req.op = "GET"
    /\ req.query.search = Some(<<"A","b">>)
    /\ Len(runtimeTasks) >= 2
    /\ \E i \in 1..Len(created) :
          /\ OnlyIn(<<"A","b">>, created[i], runtimeTasks)
          /\ Count(created[i], resp.data) = 1

\* the messages validateTaskRequest gave for the request being answered
RequestErrors ==
    IF variant = "edge" THEN validateTaskRequestEdge(req.body, req.at)
    ELSE validateTaskRequest(req.body)

\* C2: a POST whose validation reports at least one error is answered 400 with
\* data null, success false and one error string joining all the messages, and
\* leaves the store as it was.
C2_ValidationFailure ==
    (req.op = "POST" /\ req.parsed /\ Len(RequestErrors) > 0)
        => /\ resp.status = 400
           /\ resp.data = Undefined
           /\ resp.success = FALSE
           /\ resp.error = Some("Validation failed: " \o join(RequestErrors, ", "))
           /\ CurrentStore = pre

C2_Witness ==
    /\ req.op = "POST" /\ req.parsed
    /\ Len(RequestErrors) = 2
    /\ resp.status = 400
    /\ resp.error = Some("Validation failed: Title is required, Priority must be one of: low, medium, high, urgent")
    /\ Len(TasksOf(CurrentStore)) > 0

\* C3: no two tasks in the store have the same id.
C3_UniqueIds ==
    variant = "memory"
        => \A i, j \in 1..Len(runtimeTasks) :
              i # j => runtimeTasks[i].id # runtimeTasks[j].id

\* C4: every task produced by a successful creation has createdAt equal to
\* updatedAt.
C4_SameTimestamp ==
    \A i \in 1..Len(created) : created[i].createdAt = created[i].updatedAt

-----------------------------------------------------------------------------
(* validateTaskRequest against the rules *)

Messages(list) == {list[k] : k \in 1..Len(list)}

TitleMessages ==
    {"Title is required", "Title cannot be empty", "Title must be less than 200 characters"}
DescriptionMessages == {"Description must be less than 1000 characters"}
PriorityMessages ==
    {"Priority is required", "Priority must be one of: low, medium, high, urgent"}
CategoryMessages ==
    {"Category is required",
     "Category must be one of: work, personal, shopping, health, learning"}
DueDateMessages == {"Due date must be a valid ISO date string"}

\* C5: a title that is non-empty and at most 200 characters long once trimmed
\* gets no title error, and the 200-character error is reported exactly when
\* the trimmed length exceeds 200.
C5_TrimmedTitle ==
    resp.op = "validateTaskRequest"
        => LET title == req.body.title
               trimmedLen == IF title = Undefined THEN 0 ELSE Len(trim(Val(title)))
           IN  /\ (trimmedLen > 0 /\ trimmedLen <= MaxTitleLen)
                     => Messages(resp.errors) \cap TitleMessages = {}
               /\ "Title must be less than 200 characters" \in Messages(resp.errors)
                     <=> trimmedLen > MaxTitleLen

\* the rules of the five fields
TitleRule(body) ==
    /\ Truthy(body.title)
    /\ Len(trim(Val(body.title))) > 0
    /\ Len(trim(Val(body.title))) <= MaxTitleLen
DescriptionRule(body) ==
    ~Truthy(body.description) \/ Len(Val(body.description)) <= MaxDescLen
PriorityRule(body) ==
    TruthyStr(body.priority) /\ \E k \in 1..Len(Priority) : Priority[k] = Val(body.priority)
CategoryRule(body) ==
    TruthyStr(body.category) /\ \E k \in 1..Len(Category) : Category[k] = Val(body.category)
DueDateRule(body) ==
    ~TruthyStr(body.dueDate) \/ DateParse(Val(body.dueDate)) # NaN

\* the number of messages of the list that are among those of one field
Reported(list, fieldMessages) ==
    Cardinality({k \in 1..Len(list) : list[k] \in fieldMessages})

Expected(rule) == IF rule THEN 0 ELSE 1

\* C10: the list holds exactly one message for each field that violates its
\* rule and none for a field that satisfies it; it is empty exactly when every
\* field is valid.
C10_OnePerViolation ==
    resp.op = "validateTaskRequest"
        => LET body == req.body
               errors == resp.errors
           IN  /\ Reported(errors, TitleMessages) = Expected(TitleRule(body))
               /\ Reported(errors, DescriptionMessages) = Expected(DescriptionRule(body))
               /\ Reported(errors, PriorityMessages) = Expected(PriorityRule(body))
               /\ Reported(errors, CategoryMessages) = Expected(CategoryRule(body))
               /\ Reported(errors, DueDateMessages) = Expected(DueDateRule(body))
               /\ Len(errors) = Expected(TitleRule(body)) + Expected(DescriptionRule(body))
                     + Expected(PriorityRule(body)) + Expected(CategoryRule(body))
                     + Expected(DueDateRule(body))

-----------------------------------------------------------------------------
(* applyFilters against the filter specification *)

\* text contains s, letter case aside
ContainsIgnoringCase(text, s) ==
    \E i \in 0..(Len(text) - Len(s)) :
        \A j \in 1..Len(s) : ToLowerChar(text[i + j]) = ToLowerChar(s[j])

\* task satisfies every filter that is provided
Satisfies(task, filters) ==
    /\ filters.category # Undefined => task.category = Val(filters.category)
    /\ filters.priority # Undefined => task.priority = Val(filters.priority)
    /\ filters.completed # Undefined => task.completed = Val(filters.completed)
    /\ filters.search # Undefined =>
          \/ ContainsIgnoringCase(task.title, Val(filters.search))
          \/ /\ task.description # Undefined
             /\ ContainsIgnoringCase(Val(task.description), Val(filters.search))

\* the k-th smallest element of a set of positions
Kth(positions, k) ==
    CHOOSE i \in positions : Cardinality({j \in positions : j < i}) = k - 1

NoFilter == Query(Undefined, Undefined, Undefined, Undefined)

\* C6: applyFilters returns exactly the tasks of the input that satisfy every
\* provided filter, in their original relative order; with no filter set it
\* returns the whole input in its order.
C6_ExactSubsequence ==
    resp.op = "applyFilters"
        => LET tasks == req.tasks
               kept == {i \in 1..Len(tasks) : Satisfies(tasks[i], req.filters)}
           IN  /\ Len(resp.data) = Cardinality(kept)
               /\ \A k \in 1..Len(resp.data) : resp.data[k] = tasks[Kth(kept, k)]
               /\ req.filters = NoFilter => resp.data = tasks

C6_Witness ==
    /\ resp.op = "applyFilters"
    /\ req.filters = Query(Some("work"), Some("high"), Some(TRUE), Some(<<"a">>))
    /\ Len(req.tasks) = 2
    /\ req.tasks[1] # req.tasks[2]
    /\ Len(resp.data) = 1
    /\ resp.data[1] = req.tasks[2]

\* C7: with only a non-empty search set, a task without description is in the
\* result exactly when its lower-cased title contains the lower-cased search.
C7_AbsentDescription ==
    ( /\ resp.op = "applyFilters"
      /\ req.filters.category = Undefined
      /\ req.filters.priority = Undefined
      /\ req.filters.completed = Undefined
      /\ req.filters.search # Undefined
      /\ Len(Val(req.filters.search)) > 0 )
        => \A i \in 1..Len(req.tasks) :
              req.tasks[i].description = Undefined
                 => ( (\E k \in 1..Len(resp.data) : resp.data[k] = req.tasks[i])
                        <=> ContainsIgnoringCase(req.tasks[i].title, Val(req.filters.search)) )

C7_Witness ==
    /\ resp.op = "applyFilters"
    /\ req.filters = Query(Undefined, Undefined, Undefined, Some(<<"a","B">>))
    /\ Len(req.tasks) = 2
    /\ req.tasks[1].description = Undefined /\ req.tasks[1].title = <<"A","b">>
    /\ req.tasks[2].description = Undefined /\ req.tasks[2].title = <<"c">>
    /\ resp.data = <<req.tasks[1]>>

-----------------------------------------------------------------------------
(* Unreadable sources *)

FileUnreadable == variant = "file" /\ pre.kind \in {"missing", "malformed"}
EdgeUnreadable == variant = "edge" /\ pre.kind \in {"throws", "scalar"}

FallbackAnswer ==
    resp = GetOk(applyFilters(getFallbackTasks, ParseFilters(req.query)),
                 Len(getFallbackTasks))

C9_FailedPersist ==
    ( /\ variant = "file"
      /\ req.op = "POST" /\ req.parsed
      /\ Len(validateTaskRequest(req.body)) = 0
      /\ (pre.kind \in {"missing", "malformed"} \/ resp.status = 500) )
        => resp.status = 500 /\ tasksFile = pre

-----------------------------------------------------------------------------
(* Due dates *)

DueDateErrors == DueDateMessages \cup {"Due date cannot be in the past"}

\* the due date of the body is present and parses as a date
DueDateParses(body) ==
    TruthyStr(body.dueDate) /\ ~isNaN(DateParse(Val(body.dueDate)))

\* title, description, priority and category of the body pass their checks
OtherFieldsPass(body) ==
    /\ validateTitle(body) = <<>>
    /\ validateDescription(body) = <<>>
    /\ validatePriority(body) = <<>>
    /\ validateCategory(body) = <<>>

\* no due date message unless the due date is present and does not parse, and
\* no 400 for a request whose only questionable field is a due date that parses
AcceptsEveryValidDueDate ==
    (req.op = "POST" /\ req.parsed)
        => /\ (Messages(RequestErrors) \cap DueDateErrors # {})
                 => (TruthyStr(req.body.dueDate) /\ ~DueDateParses(req.body))
           /\ (DueDateParses(req.body) /\ OtherFieldsPass(req.body))
                 => resp.status # 400

\* C11: a creation request whose dueDate parses as a valid date is never
\* rejected because of the dueDate, also when the date lies before the current
\* time; a dueDate error is reported only when the present dueDate does not
\* parse.
C11_Original == AcceptsEveryValidDueDate

\* C11 as amended: in the in-memory and file variants a dueDate that parses is
\* never a reason for rejection, past or not, and a dueDate error is reported
\* only when the present dueDate does not parse; in the Edge Config variant a
\* dueDate error is reported exactly when the present dueDate does not parse or
\* lies before the time of validation.
C11_Amended ==
    /\ variant \in {"memory", "file"} => AcceptsEveryValidDueDate
    /\ (variant = "edge" /\ req.op = "POST" /\ req.parsed)
          => ( (Messages(RequestErrors) \cap DueDateErrors # {})
                 <=> /\ TruthyStr(req.body.dueDate)
                     /\ \/ ~DueDateParses(req.body)
                        \/ DateParse(Val(req.body.dueDate)) < req.at )

\* a creation whose due date lies before the end of an earlier creation
C11_Witness ==
    /\ variant \in {"memory", "file"}
    /\ req.op = "POST" /\ req.parsed
    /\ DueDateParses(req.body)
    /\ resp.status = 201
    /\ Len(created) = 2
    /\ DateParse(Val(req.body.dueDate)) < DateParse(created[1].updatedAt)
    /\ Val(resp.data).dueDate = req.body.dueDate

-----------------------------------------------------------------------------
(* Overlapping creations *)

Front(list) == SubSeq(list, 1, Len(list) - 1)

Answered201(c) ==
    calls[c].op = "POST" /\ calls[c].pc = "done" /\ calls[c].resp.status = 201

\* a and b both read the file before the write of either reached it, both
\* answered 201, and the file was written by no one else since they read it
Raced(a, b) ==
    /\ variant = "file"
    /\ a # b
    /\ Answered201(a) /\ Answered201(b)
    /\ a \notin calls[b].seen /\ b \notin calls[a].seen
    /\ \A d \in Calls \ {a, b} :
          calls[d].wrote => d \in (calls[a].seen \cap calls[b].seen)

\* C12: in the file variant two valid POSTs are not mutually excluded: when both
\* have read the file before either wrote it and both have answered 201, the
\* file holds what one of them wrote, the list both read plus its own task, so
\* only one of the two new tasks (or mixed bytes, when the two writes
\* overlapped).
C12_LostUpdate ==
    \A a, b \in Calls :
        Raced(a, b)
            => /\ Front(calls[a].currentTasks) = Front(calls[b].currentTasks)
               /\ \/ tasksFile = JSONstringify(calls[a].currentTasks)
                  \/ tasksFile = JSONstringify(calls[b].currentTasks)
                  \/ tasksFile = PartialFile
                       /\ (calls[a].overlapped \/ calls[b].overlapped)
               /\ Len(readTasksFromFile(tasksFile).tasks)
                     <= Len(Front(calls[a].currentTasks)) + 1

\* two creations raced on a file of tasks: both answered 201 with different
\* tasks and the file holds the former tasks and the second task alone
C12_Witness ==
    /\ variant = "file"
    /\ pre.kind = "array" /\ Len(pre.tasks) > 0
    /\ Raced(1, 2)
    /\ calls[1].newTask # calls[2].newTask
    /\ created = <<calls[1].newTask, calls[2].newTask>>
    /\ tasksFile.kind = "array"
    /\ tasksFile.tasks = Append(pre.tasks, calls[2].newTask)
    /\ \A k \in 1..Len(tasksFile.tasks) : tasksFile.tasks[k] # calls[1].newTask

-----------------------------------------------------------------------------
(* The in-memory store under overlapping requests *)

NewlyAnswered201(c) ==
    calls[c].resp.status # 201 /\ calls'[c].resp.status = 201

\* the list is the initial one followed by the tasks answered 201, in the order
\* of the answers
StoreLaw ==
    variant = "memory"
        => /\ runtimeTasks = pre \o created
           /\ Len(runtimeTasks)
                 = Len(pre) + Cardinality({c \in Calls : calls[c].resp.status = 201})

\* a step keeps every stored task where it is; it adds one task at the end
\* exactly when it answers a POST with 201, and none when it answers a GET
AppendStep ==
    variant = "memory"
        => /\ SubSeq(runtimeTasks', 1, Len(runtimeTasks)) = runtimeTasks
           /\ Len(runtimeTasks') >= Len(runtimeTasks)
           /\ IF \E c \in Calls : NewlyAnswered201(c)
              THEN \E c \in Calls :
                      /\ NewlyAnswered201(c)
                      /\ runtimeTasks' = Append(runtimeTasks, Val(calls'[c].resp.data))
              ELSE runtimeTasks' = runtimeTasks
           /\ \A c \in Calls :
                 (calls'[c].op = "GET" /\ calls[c].pc # "done" /\ calls'[c].pc = "done")
                     => runtimeTasks' = runtimeTasks

\* C13: in the in-memory variant the store is append-only under every
\* interleaving of GET and POST at their await points: no step removes, changes
\* or reorders a stored task, a GET leaves the list as it is, each POST answered
\* 201 adds exactly one task at the end, and the length is the initial length
\* plus the number of 201 responses.
C13_AppendOnly == []StoreLaw /\ [][AppendStep]_vars

\* the later of two overlapping creations answered first, a GET-free overtaking
C13_Witness ==
    /\ variant = "memory"
    /\ Len(pre) > 0
    /\ Answered201(1) /\ Answered201(2)
    /\ calls[1].newTask # calls[2].newTask
    /\ runtimeTasks = pre \o <<calls[2].newTask, calls[1].newTask>>

====
